---- MODULE Spec2Model ----
(***************************************************************************)
(* Model of the TradingServer REST backend: the trading-registration      *)
(* routes (routes/TradingRoute.js), the generic registration controller   *)
(* (controller/formControllers.js) and the upload directory on disk.      *)
(*                                                                         *)
(* A request is one action: the multer middleware writes the uploaded     *)
(* files, then the handler runs to its response, one request at a time.   *)
(* Object ids and stored file names are never reused, so both are drawn   *)
(* from counters.  SpecRace alone splits the update and delete handlers   *)
(* at their awaits, so that requests interleave.                          *)
(*                                                                         *)
(*   Spec        create, get, update, delete and the generic form submit   *)
(*   SpecStatus  status updates, get and stats over stored registrations   *)
(*   SpecVerify  verification updates and stats over stored registrations  *)
(*   SpecList    the paginated list over a populated collection            *)
(*   SpecIntake  Spec with the uploads multer's fileFilter rejects         *)
(*   SpecPayment the payment endpoints (controller/PaymentController.js)   *)
(*   SpecRace    update and delete, interleaved at their awaits            *)
(***************************************************************************)
EXTENDS Integers, Sequences, FiniteSets, Bags, TLC

VARIABLES
    db,        \* TradingRegistration collection: _id -> document
    forms,     \* UserForm collection: set of documents
    disk,      \* paths of the files present under uploads/
    removed,   \* paths the handlers have unlinked (fs.unlinkSync)
    nextId,    \* next ObjectId the database hands out
    nextFile,  \* next unique suffix of a stored file name
    resp,      \* the request just answered and its response
    payments,  \* Payment collection: documents in order of creation
    inflight   \* requests between two awaits: a bag of handler contexts

vars == <<db, forms, disk, removed, nextId, nextFile, resp, payments, inflight>>

\* ---------------------------------------------------------------- bounds
MaxIds == 1
MaxFiles == 2
MaxListed == 11     \* most records in the collection the list endpoint pages over

\* ------------------------------------------------------- request values
Absent == "undefined"           \* a key the request does not carry
BadId == 0                      \* stands for an id string that does not cast to ObjectId
Null == [null |-> TRUE]         \* JavaScript null

Ids == 1..MaxIds
IdParams == Ids \cup {BadId}

BodyFields == {"firstName", "lastName", "email"}
Body(first, last, mail) == [firstName |-> first, lastName |-> last, email |-> mail]

\* The request bodies tried: complete, partial (two fields undefined), and
\* with an empty field
Bodies ==
    {Body("Asha", "Kumar", "a@x.in"), Body("Ravi", Absent, Absent),
     Body("", "Kumar", "a@x.in")}

\* JavaScript truthiness of a body value
Truthy(v) == v # Absent /\ v # ""

\* ------------------------------------------------------------ File Intake
\* upload.fields([{aadharFile}, {signatureFile}])
uploadFields == {"aadharFile", "signatureFile"}

\* multer.diskStorage destination: the directory chosen by field name
destination(fieldname) ==
    IF fieldname = "aadharFile" THEN "uploads/aadhar/"
    ELSE IF fieldname = "signatureFile" THEN "uploads/signatures/"
    ELSE "uploads/misc/"

\* multer.diskStorage filename: <fieldname>-<unique suffix>
filename(fieldname, suffix) == <<fieldname, suffix>>

\* The multer file object of one stored upload
StoredFile(fieldname, suffix) ==
    [fieldname |-> fieldname,
     filename  |-> filename(fieldname, suffix),
     path      |-> <<destination(fieldname), filename(fieldname, suffix)>>]

\* Suffix given to each uploaded field of one request, in field order
SuffixOf(fields, f) ==
    IF f = "aadharFile" THEN nextFile
    ELSE IF "aadharFile" \in fields THEN nextFile + 1 ELSE nextFile

\* req.files after the middleware ran: field -> multer file object
Upload(fields) == [f \in fields |-> StoredFile(f, SuffixOf(fields, f))]

PathsOf(files) == {files[f].path : f \in DOMAIN files}

\* Helper function to format file data for database
formatFileData(file) ==
    IF file = Null THEN Null
    ELSE [filename |-> file.filename, path |-> file.path]

\* ------------------------------------------------------- error objects
NoErrors == [k \in {} |-> ""]

ValidationError(errs) ==
    [name |-> "ValidationError", kind |-> "none", code |-> 0,
     message |-> <<"validation failed">>, errors |-> errs, keyPattern |-> <<>>]

CastError ==
    [name |-> "CastError", kind |-> "ObjectId", code |-> 0,
     message |-> <<"Cast to ObjectId failed">>, errors |-> NoErrors, keyPattern |-> <<>>]

NetworkError ==
    [name |-> "MongoNetworkError", kind |-> "none", code |-> 0,
     message |-> <<"connection lost">>, errors |-> NoErrors, keyPattern |-> <<>>]

\* String.prototype.includes on a message, a sequence of phrases
Includes(message, phrase) == \E i \in DOMAIN message : message[i] = phrase

\* Error handling function
handleRegistrationErrors(error) ==
    IF error.name = "ValidationError"
    THEN [k \in DOMAIN error.errors |-> error.errors[k]]
    ELSE IF error.name = "MongoServerError" /\ error.code = 11000
    THEN [k \in {error.keyPattern[1]} |-> "already exists"]
    ELSE IF Includes(error.message, "already exists")
    THEN [k \in {"general"} |-> error.message]
    ELSE IF Includes(error.message, "Invalid file type")
    THEN [k \in {"file"} |-> error.message]
    ELSE [k \in {"general"} |-> error.message]

\* ---------------------------------------------------------- Record Store
fileFields == {"aadharFile", "panFile", "signatureFile"}
validStatuses_withArchived ==
    {"pending", "approved", "rejected", "under_review", "archived"}

validStatuses == {"pending", "approved", "rejected", "under_review"}
validTypes == {"aadharVerified", "panVerified", "signatureVerified",
               "emailVerified", "phoneVerified"}

\* TradingRegistration schema: the required-field rules run by save()
SchemaErrors(data) ==
    LET bad == {f \in BodyFields : ~Truthy(data[f])}
    IN  [f \in bad |-> <<f, "is required">>]

\* Update validators (runValidators: true): only the paths the update sets
UpdateErrors(updateData) ==
    LET bad == {f \in BodyFields : updateData[f] = ""}
    IN  [f \in bad |-> <<f, "is required">>]

\* TradingRegistration schema: a new document with the schema defaults
NewRegistration(data, files) ==
    [firstName |-> data["firstName"],
     lastName |-> data["lastName"],
     email |-> data["email"],
     aadharFile |-> IF "aadharFile" \in DOMAIN files
                    THEN formatFileData(files["aadharFile"]) ELSE Null,
     panFile |-> Null,
     signatureFile |-> IF "signatureFile" \in DOMAIN files
                       THEN formatFileData(files["signatureFile"]) ELSE Null,
     registrationStatus |-> "pending",
     adminNotes |-> Absent,
     verificationStatus |-> [t \in validTypes |-> FALSE]]

\* Model.findById: "throw" on a malformed id, else the document or null
findById(id) ==
    IF id = BadId THEN "throw"
    ELSE IF id \in DOMAIN db THEN "found" ELSE "null"

\* fs.existsSync(file.path)
existsSync(d, path) == path \in d

\* The paths a document references through its file fields
ReferencedPaths(doc) == {doc[f].path : f \in {g \in fileFields : doc[g] # Null}}

Drop(f, k) == [i \in DOMAIN f \ {k} |-> f[i]]

\* ------------------------------------------------------------- responses
\* The request just answered (op, id, what it uploaded and lacked) and the
\* response sent (status, message, errors map, echoed error detail, data)
Reply(op, id, status, message) ==
    [op |-> op, id |-> id, status |-> status, message |-> message,
     errors |-> NoErrors,   \* body.errors
     detail |-> <<>>,       \* body.error, the echoed error.message
     data |-> {},           \* body.data
     arg |-> <<>>,          \* the status or verification the request asked for
     files |-> {},          \* paths of req.files
     refs |-> {},           \* paths the addressed document referenced
     unlinked |-> {},       \* paths this request unlinked
     lacking |-> {},        \* required fields and files the request lacked
     rejected |-> {}]       \* upload fields the file filter turned down

NotFound(op, id) == Reply(op, id, 404, "Registration not found")

Fits(fields) == nextFile + Cardinality(fields) - 1 <= MaxFiles

\* ------------------------------------------------ POST /  (create)
\* catch block of router.post('/'): 400 with the errors map
PostCatch(error, files) ==
    [Reply("post", nextId, 400, "Registration failed") EXCEPT
        !.errors = handleRegistrationErrors(error),
        !.files = PathsOf(files),
        !.unlinked = PathsOf(files)]

PostRegistration ==
    /\ UNCHANGED <<payments, inflight>>
    /\ \E body \in Bodies, fields \in SUBSET uploadFields :
           LET files == Upload(fields)
               errs == SchemaErrors(body)
               lacking == {f \in BodyFields : ~Truthy(body[f])}
           IN  /\ Fits(fields)
               /\ nextFile' = nextFile + Cardinality(fields)
               /\ forms' = forms
               /\ \/ \* save() resolves
                     /\ errs = NoErrors
                     /\ nextId <= MaxIds
                     /\ db' = db @@ (nextId :> NewRegistration(body, files))
                     /\ nextId' = nextId + 1
                     /\ disk' = disk \cup PathsOf(files)
                     /\ removed' = removed
                     /\ resp' = [Reply("post", nextId, 201,
                                       "Registration submitted successfully!") EXCEPT
                                    !.files = PathsOf(files),
                                    !.data = {[id |-> nextId,
                                               registrationStatus |-> "pending"]}]
                  \/ \* save() rejects (validation, or the database is unreachable);
                     \* catch: unlink the uploaded files that exist, answer 400
                     \E error \in IF errs # NoErrors THEN {ValidationError(errs)}
                                  ELSE {NetworkError} :
                         /\ db' = db
                         /\ nextId' = nextId
                         /\ disk' = (disk \cup PathsOf(files)) \ PathsOf(files)
                         /\ removed' = removed \cup PathsOf(files)
                         /\ resp' = [PostCatch(error, files) EXCEPT !.lacking = lacking]

\* ------------------------------------------------ GET /:id
GetCatch_no404(error, id) ==
    [Reply("get", id, 500, "Failed to fetch registration") EXCEPT
        !.detail = error.message]

\* catch block of router.get('/:id')
GetCatch(error, id) ==
    IF error.kind = "ObjectId"
    THEN NotFound("get", id)
    ELSE [Reply("get", id, 500, "Failed to fetch registration") EXCEPT
             !.detail = error.message]

\* The response of router.get('/:id') for a request, given the store
GetReply(id, dbUp) ==
    IF findById(id) = "throw" THEN GetCatch(CastError, id)
    ELSE IF ~dbUp THEN GetCatch(NetworkError, id)
    ELSE IF findById(id) = "null" THEN NotFound("get", id)
    ELSE [Reply("get", id, 200, "") EXCEPT !.data = {db[id]}]

GetRegistration ==
    /\ UNCHANGED <<payments, inflight>>
    /\ \E id \in IdParams, dbUp \in BOOLEAN :
           /\ id = BadId => dbUp      \* the cast fails before the database is asked
           /\ UNCHANGED <<db, forms, disk, removed, nextId, nextFile>>
           /\ resp' = GetReply(id, dbUp)

\* ------------------------------------------------ PUT /:id  (update)
\* The stored files the handler unlinks before the database write: for each
\* uploaded field, the document's old file when it is on disk
SupersededPaths(registration, files, d) ==
    {registration[f].path :
        f \in {g \in fileFields \cap DOMAIN files :
                 /\ registration[g] # Null
                 /\ existsSync(d, registration[g].path)}}

ApplyUpdate_withoutFiles(registration, body, files) ==
    [k \in DOMAIN registration |->
        IF k \in BodyFields /\ body[k] # Absent THEN body[k]
        ELSE registration[k]]

\* findByIdAndUpdate(id, updateData): set the paths the update carries
ApplyUpdate(registration, body, files) ==
    [k \in DOMAIN registration |->
        IF k \in DOMAIN files THEN formatFileData(files[k])
        ELSE IF k \in BodyFields /\ body[k] # Absent THEN body[k]
        ELSE registration[k]]

\* catch block of router.put('/:id'): the uploaded files it unlinks
PutCleanup(files, d) == {q \in PathsOf(files) : existsSync(d, q)}

\* catch block of router.put('/:id'): 400 with the errors map
PutCatch(error, id, files) ==
    [Reply("put", id, 400, "Failed to update registration") EXCEPT
        !.errors = handleRegistrationErrors(error),
        !.files = PathsOf(files)]

PutRegistration ==
    /\ UNCHANGED <<payments, inflight>>
    /\ \E fields \in SUBSET uploadFields :
           LET files == Upload(fields)
               written == disk \cup PathsOf(files)
           IN  /\ Fits(fields)
               /\ nextFile' = nextFile + Cardinality(fields)
               /\ UNCHANGED <<forms, nextId>>
               /\ \/ \* findById throws (malformed id, or the database is unreachable)
                     \E id \in IdParams :
                         LET error == IF findById(id) = "throw" THEN CastError
                                      ELSE NetworkError
                             cleaned == PutCleanup(files, written)
                         IN  /\ db' = db
                             /\ disk' = written \ cleaned
                             /\ removed' = removed \cup cleaned
                             /\ resp' = [PutCatch(error, id, files) EXCEPT
                                            !.unlinked = cleaned]
                  \/ \* 404: the handler returns before any cleanup
                     \E id \in IdParams :
                         /\ findById(id) = "null"
                         /\ db' = db
                         /\ disk' = written
                         /\ removed' = removed
                         /\ resp' = [NotFound("put", id) EXCEPT !.files = PathsOf(files)]
                  \/ \* found: unlink superseded files, then findByIdAndUpdate
                     \E id \in IdParams, body \in Bodies, dbUp \in BOOLEAN :
                         /\ findById(id) = "found"
                         /\ UpdateErrors(body) # NoErrors => dbUp
                         /\ LET old == SupersededPaths(db[id], files, written)
                                errs == UpdateErrors(body)
                                error == IF errs # NoErrors THEN ValidationError(errs)
                                         ELSE NetworkError
                                cleaned == PutCleanup(files, written \ old)
                            IN  IF errs = NoErrors /\ dbUp
                                THEN /\ db' = [db EXCEPT
                                                 ![id] = ApplyUpdate(@, body, files)]
                                     /\ disk' = written \ old
                                     /\ removed' = removed \cup old
                                     /\ resp' = [Reply("put", id, 200,
                                                   "Registration updated successfully") EXCEPT
                                                    !.files = PathsOf(files),
                                                    !.refs = ReferencedPaths(db[id]),
                                                    !.unlinked = old,
                                                    !.data = {db'[id]}]
                                ELSE \* the write throws after the old files are gone
                                     /\ db' = db
                                     /\ disk' = (written \ old) \ cleaned
                                     /\ removed' = removed \cup old \cup cleaned
                                     /\ resp' = [PutCatch(error, id, files) EXCEPT
                                                    !.refs = ReferencedPaths(db[id]),
                                                    !.unlinked = old \cup cleaned]

\* ------------------------------------------------ DELETE /:id
filesToDelete_noSignature(registration) ==
    {registration[f].path :
        f \in {g \in {"aadharFile", "panFile"} : registration[g] # Null}}

\* filesToDelete: the paths of the document's file fields, filter(Boolean)
filesToDelete(registration) ==
    {registration[f].path : f \in {g \in fileFields : registration[g] # Null}}

\* catch block of router.delete('/:id')
DeleteCatch(error, id) ==
    [Reply("delete", id, 500, "Failed to delete registration") EXCEPT
        !.detail = error.message]

DeleteRegistration ==
    /\ UNCHANGED <<payments, inflight>>
    /\ /\ UNCHANGED <<forms, nextId, nextFile>>
       /\ \/ \* findById throws (malformed id, or the database is unreachable)
             \E id \in IdParams :
                 /\ UNCHANGED <<db, disk, removed>>
                 /\ resp' = DeleteCatch(IF findById(id) = "throw" THEN CastError
                                        ELSE NetworkError, id)
          \/ \E id \in IdParams :
                 /\ findById(id) = "null"
                 /\ UNCHANGED <<db, disk, removed>>
                 /\ resp' = NotFound("delete", id)
          \/ \E id \in IdParams, dbUp \in BOOLEAN :
                 /\ findById(id) = "found"
                 /\ LET unlinked == {q \in filesToDelete(db[id]) : existsSync(disk, q)}
                    IN  /\ disk' = disk \ unlinked
                        /\ removed' = removed \cup unlinked
                        /\ IF dbUp
                           THEN /\ db' = Drop(db, id)
                                /\ resp' = [Reply("delete", id, 200,
                                                  "Registration deleted successfully") EXCEPT
                                               !.refs = ReferencedPaths(db[id]),
                                               !.unlinked = unlinked]
                           ELSE \* findByIdAndDelete throws after the files are gone
                                /\ db' = db
                                /\ resp' = [DeleteCatch(NetworkError, id) EXCEPT
                                               !.refs = ReferencedPaths(db[id]),
                                               !.unlinked = unlinked]

\* ------------------------------------------------ POST /submit  (generic form)
AgreeValues == {"true", "false"}

\* UserForm schema: agreeTerms must be literal true
UserFormErrors(doc) ==
    IF doc.agreeTerms THEN NoErrors
    ELSE [k \in {"agreeTerms"} |-> <<"agreeTerms", "must be true">>]

\* Validation (basic): the fields and files submitForm itself requires
SubmitLacking(body, aadharFile, signatureFile) ==
    {f \in BodyFields : ~Truthy(body[f])}
        \cup (IF aadharFile = Null THEN {"aadharFile"} ELSE {})
        \cup (IF signatureFile = Null THEN {"signatureFile"} ELSE {})

submitForm ==
    /\ UNCHANGED <<payments, inflight>>
    /\ \E body \in Bodies, fields \in SUBSET uploadFields :
           LET files == Upload(fields)
               aadharFile == IF "aadharFile" \in DOMAIN files
                             THEN files["aadharFile"].path ELSE Null
               signatureFile == IF "signatureFile" \in DOMAIN files
                                THEN files["signatureFile"].path ELSE Null
               lacking == SubmitLacking(body, aadharFile, signatureFile)
           IN  /\ Fits(fields)
               /\ nextFile' = nextFile + Cardinality(fields)
               /\ disk' = disk \cup PathsOf(files)
               /\ UNCHANGED <<db, removed, nextId>>
               /\ IF lacking # {}
                  THEN /\ forms' = forms
                       /\ resp' = [Reply("submit", BadId, 400,
                                         "Missing required fields or files.") EXCEPT
                                      !.files = PathsOf(files), !.lacking = lacking]
                  ELSE \E agreeTerms \in AgreeValues, dbUp \in BOOLEAN :
                         LET newUser == [firstName |-> body["firstName"],
                                         lastName |-> body["lastName"],
                                         email |-> body["email"],
                                         aadharFile |-> aadharFile,
                                         signatureFile |-> signatureFile,
                                         agreeTerms |-> (agreeTerms = "true")]
                         IN  IF UserFormErrors(newUser) # NoErrors \/ ~dbUp
                             THEN \* save throws; catch answers 500
                                  /\ forms' = forms
                                  /\ resp' = [Reply("submit", BadId, 500,
                                                "Something went wrong. Please try again.") EXCEPT
                                                 !.files = PathsOf(files)]
                             ELSE /\ forms' = forms \cup {newUser}
                                  /\ resp' = [Reply("submit", BadId, 201,
                                                    "Form submitted successfully!") EXCEPT
                                                 !.files = PathsOf(files)]

\* ------------------------------------------------ PUT /:id/status
StatusValues == {"pending", "approved", "rejected", "under_review", "archived", Absent}
NoteValues == {Absent, "", "checked", "on hold"}

\* findByIdAndUpdate(id, { registrationStatus: status, ...(adminNotes && { adminNotes }) })
StatusUpdate(registration, status, adminNotes) ==
    [registration EXCEPT
        !.registrationStatus = status,
        !.adminNotes = IF Truthy(adminNotes) THEN adminNotes ELSE @]

\* catch block of router.put('/:id/status')
StatusCatch(error, id) ==
    [Reply("status", id, 500, "Failed to update registration status") EXCEPT
        !.detail = error.message]

PutStatus ==
    /\ UNCHANGED <<payments, inflight>>
    /\ \E id \in IdParams, status \in StatusValues, adminNotes \in NoteValues,
          dbUp \in BOOLEAN :
           LET updated == status \in validStatuses /\ findById(id) = "found" /\ dbUp
           IN  /\ UNCHANGED <<forms, disk, removed, nextId, nextFile>>
               /\ db' = IF updated
                        THEN [db EXCEPT ![id] = StatusUpdate(@, status, adminNotes)]
                        ELSE db
               /\ resp' =
                    [(IF status \notin validStatuses
                      THEN Reply("status", id, 400, "Invalid status value")
                      ELSE IF findById(id) = "throw" THEN StatusCatch(CastError, id)
                      ELSE IF ~dbUp THEN StatusCatch(NetworkError, id)
                      ELSE IF findById(id) = "null" THEN NotFound("status", id)
                      ELSE [Reply("status", id, 200,
                                  "Registration status updated successfully") EXCEPT
                               !.data = {[id |-> id,
                                          status |-> db'[id].registrationStatus,
                                          adminNotes |-> db'[id].adminNotes]}])
                     EXCEPT !.arg = <<status, adminNotes>>]

\* ------------------------------------------------ PUT /:id/verify
TypeValues == validTypes \cup {"kycVerified"}

\* TradingRegistration.isFullyVerified(): the AND of the four tracked flags
isFullyVerified(registration) ==
    /\ registration.verificationStatus["aadharVerified"]
    /\ registration.verificationStatus["signatureVerified"]
    /\ registration.verificationStatus["emailVerified"]
    /\ registration.verificationStatus["phoneVerified"]

VerifyUpdate_wholeObject(registration, verificationType, isVerified) ==
    [registration EXCEPT
        !.verificationStatus =
            [t \in validTypes |-> IF t = verificationType THEN isVerified ELSE FALSE]]

\* findByIdAndUpdate(id, { [`verificationStatus.${verificationType}`]: isVerified })
VerifyUpdate(registration, verificationType, isVerified) ==
    [registration EXCEPT !.verificationStatus[verificationType] = isVerified]

\* catch block of router.put('/:id/verify')
VerifyCatch(error, id) ==
    [Reply("verify", id, 500, "Failed to update verification status") EXCEPT
        !.detail = error.message]

PutVerify ==
    /\ UNCHANGED <<payments, inflight>>
    /\ \E id \in IdParams, verificationType \in TypeValues, isVerified \in BOOLEAN,
          dbUp \in BOOLEAN :
           LET updated == /\ verificationType \in validTypes
                          /\ findById(id) = "found" /\ dbUp
           IN  /\ UNCHANGED <<forms, disk, removed, nextId, nextFile>>
               /\ db' = IF updated
                        THEN [db EXCEPT ![id] = VerifyUpdate(@, verificationType, isVerified)]
                        ELSE db
               /\ resp' =
                    [(IF verificationType \notin validTypes
                      THEN Reply("verify", id, 400, "Invalid verification type")
                      ELSE IF findById(id) = "throw" THEN VerifyCatch(CastError, id)
                      ELSE IF ~dbUp THEN VerifyCatch(NetworkError, id)
                      ELSE IF findById(id) = "null" THEN NotFound("verify", id)
                      ELSE [Reply("verify", id, 200,
                                  "Verification status updated successfully") EXCEPT
                               !.data = {[id |-> id,
                                          verificationStatus |-> db'[id].verificationStatus,
                                          isFullyVerified |-> isFullyVerified(db'[id])]}])
                     EXCEPT !.arg = <<verificationType, isVerified>>]

\* ------------------------------------------------ GET /stats
\* $group: { _id: key, count: { $sum: 1 } }, keyOf giving each document's key
GroupCount(keyOf) ==
    {[_id |-> k, count |-> Cardinality({i \in DOMAIN keyOf : keyOf[i] = k})] :
        k \in {keyOf[i] : i \in DOMAIN keyOf}}

fullyVerified_withPan(registration) ==
    \A t \in validTypes : registration.verificationStatus[t]

\* $project: { fullyVerified: { $and: [aadhar, signature, email, phone] } }
fullyVerified(registration) ==
    /\ registration.verificationStatus["aadharVerified"]
    /\ registration.verificationStatus["signatureVerified"]
    /\ registration.verificationStatus["emailVerified"]
    /\ registration.verificationStatus["phoneVerified"]

RegistrationStatusOf(registration) == registration.registrationStatus

\* The statistics answer; todayRegistrations, which reads the clock, is left out
GetStats ==
    /\ UNCHANGED <<payments, inflight>>
    /\ \E dbUp \in BOOLEAN :
           /\ UNCHANGED <<db, forms, disk, removed, nextId, nextFile>>
           /\ resp' =
                IF ~dbUp
                THEN [Reply("stats", BadId, 500, "Failed to fetch statistics") EXCEPT
                         !.detail = NetworkError.message]
                ELSE [Reply("stats", BadId, 200, "") EXCEPT
                         !.data = {[statusBreakdown |-> GroupCount([i \in DOMAIN db |-> RegistrationStatusOf(db[i])]),
                                    totalRegistrations |-> Cardinality(DOMAIN db),
                                    verificationStats |-> GroupCount([i \in DOMAIN db |-> fullyVerified(db[i])])]}]

\* ------------------------------------------------ GET /  (list)
\* A query parameter is its text, a sequence of characters; Undefined is a
\* parameter the query string does not carry
Undefined == <<>>
PageValues == {Undefined, <<"1">>, <<"2">>, <<"3">>}
LimitValues == {Undefined, <<"1">>, <<"2">>, <<"5">>, <<"1", "0">>}
StatusFilters == {Absent, "approved"}
SortOrders == {Absent, "asc"}

\* const { page = 1, limit = 10, ... } = req.query
DefaultPage == 1
DefaultLimit == 10

DigitValue(c) ==
    CASE c = "0" -> 0 [] c = "1" -> 1 [] c = "2" -> 2 [] c = "3" -> 3
      [] c = "4" -> 4 [] c = "5" -> 5 [] c = "6" -> 6 [] c = "7" -> 7
      [] c = "8" -> 8 [] c = "9" -> 9

RECURSIVE parseIntFrom(_, _)
parseIntFrom(text, acc) ==
    IF text = <<>> THEN acc
    ELSE parseIntFrom(Tail(text), acc * 10 + DigitValue(Head(text)))

\* parseInt of a decimal text
parseInt(text) == parseIntFrom(text, 0)

PageOf(page) == IF page = Undefined THEN DefaultPage ELSE parseInt(page)
LimitOf(limit) == IF limit = Undefined THEN DefaultLimit ELSE parseInt(limit)

Skip_offByOne(page, limit) == page * limit

\* const skip = (parseInt(page) - 1) * parseInt(limit)
Skip(page, limit) == (page - 1) * limit

\* find(query): the ids of the documents the status filter keeps
Matching(status) ==
    {i \in DOMAIN db : ~Truthy(status) \/ db[i].registrationStatus = status}

\* sort({ submissionDate: -1 | 1 }): ids are handed out in submission order
Sorted(S, sortOrder) ==
    [j \in 1..Cardinality(S) |->
        CHOOSE x \in S :
            IF sortOrder = "asc"
            THEN Cardinality({y \in S : y < x}) = j - 1
            ELSE Cardinality({y \in S : y > x}) = j - 1]

\* skip(skip).limit(limit) on the sorted result
PageOfIds(sorted, skip, limit) ==
    SubSeq(sorted, skip + 1,
           IF skip + limit < Len(sorted) THEN skip + limit ELSE Len(sorted))

\* select('-aadharFile -panFile -signatureFile')
Project(id, doc) ==
    [k \in (DOMAIN doc \ fileFields) \cup {"_id"} |->
        IF k = "_id" THEN id ELSE doc[k]]

\* Math.ceil(total / limit)
Pages(total, limit) == (total + limit - 1) \div limit

\* The list answer; the search filter, which narrows the same query, is left out
ListRegistrations ==
    /\ UNCHANGED <<payments, inflight>>
    /\ /\ UNCHANGED <<db, forms, disk, removed, nextId, nextFile>>
       /\ \/ \* a query throws; catch answers 500
             resp' = [Reply("list", BadId, 500, "Failed to fetch registrations") EXCEPT
                         !.detail = NetworkError.message]
          \/ \E page \in PageValues, limit \in LimitValues, status \in StatusFilters,
                sortOrder \in SortOrders :
                 \E ids \in {PageOfIds(Sorted(Matching(status), sortOrder),
                                       Skip(PageOf(page), LimitOf(limit)), LimitOf(limit))},
                    total \in {Cardinality(Matching(status))} :
                     resp' =
                       [Reply("list", BadId, 200, "") EXCEPT
                           !.arg = <<page, limit, status>>,
                           !.data = {[data |-> [j \in DOMAIN ids |->
                                                   Project(ids[j], db[ids[j]])],
                                      pagination |->
                                          [current |-> PageOf(page),
                                           pages |-> Pages(total, LimitOf(limit)),
                                           total |-> total,
                                           limit |-> LimitOf(limit)]]}]

\* ------------------------------------------------ upload validation
\* Texts are sequences of characters, so that a pattern is searched in them
jpeg == <<"j", "p", "e", "g">>
jpg == <<"j", "p", "g">>
png == <<"p", "n", "g">>
pdf == <<"p", "d", "f">>

\* Extensions of the original file names (path.extname) the requests carry
ExtNames ==
    {<<".", "j", "p", "g">>, <<".", "P", "N", "G">>,
     <<".", "p", "d", "f">>, <<".", "t", "x", "t">>}

\* Content types the requests declare for their files
MimeTypes ==
    {<<"i", "m", "a", "g", "e", "/", "j", "p", "e", "g">>,
     <<"i", "m", "a", "g", "e", "/", "p", "n", "g">>,
     <<"a", "p", "p", "l", "i", "c", "a", "t", "i", "o", "n", "/", "p", "d", "f">>,
     <<"t", "e", "x", "t", "/", "p", "l", "a", "i", "n">>}

\* String.prototype.toLowerCase over the letters the extensions use
toLowerCase(text) ==
    [i \in DOMAIN text |->
        IF text[i] = "P" THEN "p"
        ELSE IF text[i] = "N" THEN "n"
        ELSE IF text[i] = "G" THEN "g"
        ELSE text[i]]

\* RegExp.prototype.test of an unanchored alternation of literals
test(pattern, text) ==
    \E alt \in pattern :
        \E i \in 1..(Len(text) - Len(alt) + 1) :
            SubSeq(text, i, i + Len(alt) - 1) = alt

\* allowedTypes[file.fieldname] || /jpeg|jpg|png|pdf/
allowedTypes(fieldname) ==
    IF fieldname = "aadharFile" THEN {jpeg, jpg, png, pdf}
    ELSE IF fieldname = "signatureFile" THEN {jpeg, jpg, png}
    ELSE {jpeg, jpg, png, pdf}

\* fileType.source, the text of the pattern
source(fieldname) ==
    IF fieldname = "signatureFile" THEN "jpeg|jpg|png" ELSE "jpeg|jpg|png|pdf"

\* The Error fileFilter hands to its callback
InvalidFileType(fieldname) ==
    [name |-> "Error", kind |-> "none", code |-> 0,
     message |-> <<"Invalid file type", fieldname, source(fieldname)>>,
     errors |-> NoErrors, keyPattern |-> <<>>]

\* File filter for validation: cb(null, true) or cb(new Error(...))
fileFilter(file) ==
    LET fileType == allowedTypes(file.fieldname)
        extname == test(fileType, toLowerCase(file.extname))
        mimetype == test(fileType, file.mimetype)
    IN  IF mimetype /\ extname
        THEN [accept |-> TRUE, error |-> Null]
        ELSE [accept |-> FALSE, error |-> InvalidFileType(file.fieldname)]

\* The application registers no error middleware: an error handed to next()
\* is answered by the framework's final handler, as a 500
FinalHandler(op, id, error) ==
    [Reply(op, id, 500, "Internal Server Error") EXCEPT !.detail = error.message]

\* router.post('/', uploadFields, ...) and router.put('/:id', uploadFields, ...)
\* when the filter turns down a part of the request, whatever its other parts:
\* the middleware discards what it stored for the request and calls next(err),
\* which skips the route handler
RejectedUpload ==
    /\ UNCHANGED <<db, forms, disk, removed, nextId, nextFile, payments, inflight>>
    /\ \E op \in {"post", "put"}, f \in uploadFields :
           \E extname \in ExtNames, mimetype \in MimeTypes,
              id \in IF op = "post" THEN {nextId} ELSE IdParams :
               LET verdict == fileFilter([fieldname |-> f,
                                          extname |-> extname,
                                          mimetype |-> mimetype])
               IN  /\ ~verdict.accept
                   /\ resp' = [FinalHandler(op, id, verdict.error) EXCEPT
                                  !.rejected = {f}]

\* -------------------------------------------------------- payment log
MaxPayments == 2    \* most records the payment collection grows to

\* req.body.amount: a text (its characters), a number, or absent
Text(chars) == [type |-> "string", chars |-> chars, value |-> 0]
Number(n) == [type |-> "number", chars |-> <<>>, value |-> n]
NoAmount == [type |-> "undefined", chars |-> <<>>, value |-> 0]

\* Amounts in whole rupees, as the clients write them
AmountValues ==
    {NoAmount, Number(0), Number(12),
     Text(<<>>), Text(<<"0">>), Text(<<"a", "b", "c">>), Text(<<"1", "2", "a">>),
     Text(<<"₹">>), Text(<<"₹", "1", ",", "5", "0", "0">>)}

PaymentStatusValues == {Absent, "Paid", "Pending", "Failed", "Refunded"}

\* req.body of the payment requests: any amount and status under both names,
\* and the bodies that lack a name
PaymentBodies ==
    {[userName |-> "Asha", courseName |-> "Forex Basics",
      amount |-> a, paymentStatus |-> p] :
        a \in AmountValues, p \in PaymentStatusValues}
    \cup {[userName |-> u, courseName |-> c,
           amount |-> Number(12), paymentStatus |-> "Paid"] :
             u \in {Absent, "", "Asha"}, c \in {Absent, "Forex Basics"}}

\* !amount
AmountGiven(amount) ==
    \/ amount.type = "string" /\ amount.chars # <<>>
    \/ amount.type = "number" /\ amount.value # 0

\* amount.replace(/[₹,\s]/g, '')
replace(chars) == SelectSeq(chars, LAMBDA c : c \notin {"₹", ",", " "})

IsDigit(c) == c \in {"0", "1", "2", "3", "4", "5", "6", "7", "8", "9"}

\* The leading digits of a text: what parseFloat reads of a whole number
RECURSIVE LeadingDigits(_)
LeadingDigits(chars) ==
    IF chars = <<>> \/ ~IsDigit(Head(chars)) THEN <<>>
    ELSE <<Head(chars)>> \o LeadingDigits(Tail(chars))

NaN == [nan |-> TRUE, value |-> 0]

\* parseFloat of a text of digits and other characters
parseFloat(chars) ==
    IF LeadingDigits(chars) = <<>> THEN NaN
    ELSE [nan |-> FALSE, value |-> parseInt(LeadingDigits(chars))]

\* let cleanAmount: the number the handler makes of req.body.amount
cleanAmount(amount) ==
    IF amount.type = "string" THEN parseFloat(replace(amount.chars))
    ELSE [nan |-> FALSE, value |-> amount.value]

\* String(n): the cast of the schema's amount: { type: String }
RECURSIVE castToString(_)
castToString(n) ==
    LET digit == <<"0", "1", "2", "3", "4", "5", "6", "7", "8", "9">>
    IN  IF n < 10 THEN <<digit[n + 1]>>
        ELSE castToString(n \div 10) \o <<digit[(n % 10) + 1]>>

paymentStatusEnum_withRefunded == {"Paid", "Pending", "Failed", "Refunded"}

\* PaymentSchema.paymentStatus.enum
paymentStatusEnum == {"Paid", "Pending", "Failed"}

\* Validation errors of a Payment document on save
PaymentErrors(doc) ==
    IF doc.paymentStatus \in paymentStatusEnum THEN NoErrors
    ELSE [k \in {"paymentStatus"} |-> <<"paymentStatus", "is not a valid enum value">>]

\* new Payment({...}) for the request, created as the n-th record
NewPayment(userName, courseName, amount, paymentStatus, n) ==
    [userName |-> userName, courseName |-> courseName,
     amount |-> castToString(cleanAmount(amount).value),
     paymentStatus |-> paymentStatus,
     userPhone |-> Absent, userEmail |-> Absent,
     createdAt |-> n]

\* POST /api/payments/add
savePayment ==
    /\ UNCHANGED <<db, forms, disk, removed, nextId, nextFile, inflight>>
    /\ \E body \in PaymentBodies :
           LET userName == body.userName
               courseName == body.courseName
               amount == body.amount
               paymentStatus == body.paymentStatus
               asked == <<userName, courseName, amount, paymentStatus>>
               newPayment == NewPayment(userName, courseName, amount, paymentStatus,
                                        Len(payments) + 1)
           IN  IF \/ ~Truthy(userName) \/ ~Truthy(courseName)
                  \/ ~AmountGiven(amount) \/ ~Truthy(paymentStatus)
               THEN /\ payments' = payments
                    /\ resp' = [Reply("savePayment", BadId, 400,
                                      "userName, courseName, amount, and paymentStatus are required")
                                   EXCEPT !.arg = asked]
               ELSE IF cleanAmount(amount).nan
               THEN /\ payments' = payments
                    /\ resp' = [Reply("savePayment", BadId, 400,
                                      "Invalid amount format. Please provide a valid number.")
                                   EXCEPT !.arg = asked]
               ELSE \E dbUp \in BOOLEAN :
                        /\ PaymentErrors(newPayment) # NoErrors => dbUp
                        /\ IF PaymentErrors(newPayment) # NoErrors \/ ~dbUp
                           THEN \* save rejects; the catch answers 500
                                /\ payments' = payments
                                /\ resp' = [Reply("savePayment", BadId, 500, "Server Error")
                                               EXCEPT !.arg = asked,
                                                      !.errors = PaymentErrors(newPayment)]
                           ELSE /\ Len(payments) < MaxPayments
                                /\ payments' = Append(payments, newPayment)
                                /\ resp' = [Reply("savePayment", BadId, 201,
                                                  "Payment saved successfully")
                                               EXCEPT !.arg = asked]

\* Payment.find().sort({ createdAt: -1 })
NewestFirst(records) ==
    [j \in 1..Len(records) |-> records[Len(records) + 1 - j]]

\* GET /api/payments/all
getAllPayments ==
    /\ UNCHANGED <<db, forms, disk, removed, nextId, nextFile, payments, inflight>>
    /\ \E dbUp \in BOOLEAN :
           resp' = IF dbUp
                   THEN [Reply("getAllPayments", BadId, 200, "") EXCEPT
                            !.data = {[success |-> TRUE,
                                       payments |-> NewestFirst(payments)]}]
                   ELSE Reply("getAllPayments", BadId, 500, "Error fetching payments")

\* ------------------------------------- update and delete, await by await
\* The clients; each awaits the answer to its request before the next one
Clients == {"first", "second"}

\* The field the interleaved updates replace
RaceFields == {"aadharFile"}

\* A handler suspended at an await: its request, what findById gave it, the
\* paths it unlinked, and how its write settled.  The answers of the
\* interleaved handlers are kept to status, message and errors map.
Context(op, id, files, registration) ==
    [op |-> op, id |-> id, pc |-> "found", files |-> files,
     registration |-> registration, unlinked |-> {},
     outcome |-> [kind |-> "pending", error |-> Null]]

Suspended(op, pc) == {c \in BagToSet(inflight) : c.op = op /\ c.pc = pc}

\* One suspended handler moves on, or finishes
Resume(c, d) == (inflight (-) SetToBag({c})) (+) SetToBag({d})
Finish(c) == inflight (-) SetToBag({c})

\* MaxFiles uploads of the interleaved requests, after the stored document's file
FitsRace(fields) == nextFile + Cardinality(fields) - 1 <= MaxFiles + 1

\* The bodies of the interleaved updates: one that validates, one that does not
RaceBodies == {Body("Ravi", Absent, Absent), Body("", "Kumar", "a@x.in")}

\* updatedRegistration._id of null
TypeError ==
    [name |-> "TypeError", kind |-> "none", code |-> 0,
     message |-> <<"Cannot read properties of null">>,
     errors |-> NoErrors, keyPattern |-> <<>>]

\* router.put('/:id') up to the first await: the middleware stores the
\* uploads, findById answers; 404 and the catch finish the request at once
PutFind ==
    /\ UNCHANGED <<forms, nextId, payments, db, removed>>
    /\ \E fields \in SUBSET RaceFields :
           \E files \in {Upload(fields)} :
               /\ FitsRace(fields)
               /\ nextFile' = nextFile + Cardinality(fields)
               /\ \/ \E id \in IdParams :
                         /\ disk' = disk
                         /\ inflight' = inflight
                         /\ resp' = PutCatch(IF findById(id) = "throw" THEN CastError
                                             ELSE NetworkError, id, <<>>)
                  \/ \E id \in IdParams :
                         /\ findById(id) = "null"
                         /\ disk' = disk \cup PathsOf(files)
                         /\ inflight' = inflight
                         /\ resp' = NotFound("put", id)
                  \/ \E id \in IdParams :
                         /\ findById(id) = "found"
                         /\ BagCardinality(inflight) < Cardinality(Clients)
                         /\ disk' = disk \cup PathsOf(files)
                         /\ inflight' = inflight (+) SetToBag({Context("put", id, files, db[id])})
                         /\ resp' = resp

\* router.put('/:id') from findById's answer to the call of findByIdAndUpdate:
\* the files the answer names and the upload supersedes are unlinked
PutUnlink ==
    /\ UNCHANGED <<db, forms, nextId, nextFile, resp, payments>>
    /\ \E c \in Suspended("put", "found") :
           \E old \in {SupersededPaths(c.registration, c.files, disk)} :
               /\ disk' = disk \ old
               /\ removed' = removed \cup old
               /\ inflight' = Resume(c, [c EXCEPT !.pc = "updating", !.unlinked = old])

\* findByIdAndUpdate reaches the database: it rejects, finds no document, or
\* sets the paths of updateData on the document as it is then
PutWrite ==
    /\ UNCHANGED <<forms, disk, removed, nextId, nextFile, resp, payments>>
    /\ \E c \in Suspended("put", "updating") :
           \/ \E body \in RaceBodies, dbUp \in BOOLEAN :
                  /\ UpdateErrors(body) # NoErrors => dbUp
                  /\ UpdateErrors(body) # NoErrors \/ ~dbUp
                  /\ db' = db
                  /\ inflight' = Resume(c, [c EXCEPT !.pc = "settled",
                          !.outcome = [kind |-> "error",
                                       error |-> IF UpdateErrors(body) # NoErrors
                                                 THEN ValidationError(UpdateErrors(body))
                                                 ELSE NetworkError]])
           \/ /\ c.id \notin DOMAIN db
              /\ db' = db
              /\ inflight' = Resume(c, [c EXCEPT !.pc = "settled",
                      !.outcome = [kind |-> "error", error |-> TypeError]])
           \/ \E body \in RaceBodies :
                  /\ UpdateErrors(body) = NoErrors
                  /\ c.id \in DOMAIN db
                  /\ db' = [db EXCEPT ![c.id] = ApplyUpdate(@, body, c.files)]
                  /\ inflight' = Resume(c, [c EXCEPT !.pc = "settled",
                          !.outcome = [kind |-> "updated", error |-> Null]])

\* router.put('/:id') after findByIdAndUpdate: the 200, or the catch block
PutRespond ==
    /\ UNCHANGED <<db, forms, nextId, nextFile, payments>>
    /\ \E c \in Suspended("put", "settled") :
           /\ inflight' = Finish(c)
           /\ IF c.outcome.kind = "updated"
              THEN /\ UNCHANGED <<disk, removed>>
                   /\ resp' = Reply("put", c.id, 200, "Registration updated successfully")
              ELSE \E cleaned \in {PutCleanup(c.files, disk)} :
                       /\ disk' = disk \ cleaned
                       /\ removed' = removed \cup cleaned
                       /\ resp' = PutCatch(c.outcome.error, c.id, <<>>)

\* router.delete('/:id') up to the first await
DeleteFind ==
    /\ UNCHANGED <<db, forms, disk, removed, nextId, nextFile, payments>>
    /\ \/ \E id \in IdParams :
              /\ inflight' = inflight
              /\ resp' = DeleteCatch(IF findById(id) = "throw" THEN CastError
                                     ELSE NetworkError, id)
       \/ \E id \in IdParams :
              /\ findById(id) = "null"
              /\ inflight' = inflight
              /\ resp' = NotFound("delete", id)
       \/ \E id \in IdParams :
              /\ findById(id) = "found"
              /\ BagCardinality(inflight) < Cardinality(Clients)
              /\ inflight' = inflight (+) SetToBag({Context("delete", id, <<>>, db[id])})
              /\ resp' = resp

\* router.delete('/:id') from findById's answer to the call of findByIdAndDelete
DeleteUnlink ==
    /\ UNCHANGED <<db, forms, nextId, nextFile, resp, payments>>
    /\ \E c \in Suspended("delete", "found") :
           \E unlinked \in {{q \in filesToDelete(c.registration) : existsSync(disk, q)}} :
               /\ disk' = disk \ unlinked
               /\ removed' = removed \cup unlinked
               /\ inflight' = Resume(c, [c EXCEPT !.pc = "deleting", !.unlinked = unlinked])

\* findByIdAndDelete reaches the database, and the handler answers
DeleteWrite ==
    /\ UNCHANGED <<forms, disk, removed, nextId, nextFile, payments>>
    /\ \E c \in Suspended("delete", "deleting") :
           /\ inflight' = Finish(c)
           /\ \/ /\ db' = db
                 /\ resp' = DeleteCatch(NetworkError, c.id)
              \/ /\ db' = IF c.id \in DOMAIN db THEN Drop(db, c.id) ELSE db
                 /\ resp' = Reply("delete", c.id, 200,
                                  "Registration deleted successfully")

\* ---------------------------------------------------------- specification
Init ==
    /\ db = <<>>
    /\ forms = {}
    /\ disk = {}
    /\ removed = {}
    /\ nextId = 1
    /\ nextFile = 1
    /\ resp = Reply("none", BadId, 0, "")
    /\ payments = <<>>
    /\ inflight = EmptyBag

Next ==
    \/ PostRegistration
    \/ GetRegistration
    \/ PutRegistration
    \/ DeleteRegistration
    \/ submitForm

Spec == Init /\ [][Next]_vars

\* A registration as POST / stores it: complete body, one identity document
StoredRegistration(i, status) ==
    [NewRegistration(Body("Asha", "Kumar", "a@x.in"),
                     [f \in {"aadharFile"} |-> StoredFile("aadharFile", i)]) EXCEPT
        !.registrationStatus = status,
        !.adminNotes = IF status = "pending" THEN Absent ELSE "checked"]

\* The store after n registrations were created and reviewed
InitAdmin ==
    \E n \in 0..MaxIds, status \in {"pending", "approved"} :
        /\ db = [i \in 1..n |-> StoredRegistration(i, status)]
        /\ forms = {}
        /\ disk = {StoredFile("aadharFile", i).path : i \in 1..n}
        /\ removed = {}
        /\ nextId = n + 1
        /\ nextFile = n + 1
        /\ resp = Reply("none", BadId, 0, "")
        /\ payments = <<>>
        /\ inflight = EmptyBag

NextStatus ==
    \/ PutStatus
    \/ GetRegistration
    \/ GetStats

SpecStatus == InitAdmin /\ [][NextStatus]_vars

NextVerify ==
    \/ PutVerify
    \/ GetStats

SpecVerify == InitAdmin /\ [][NextVerify]_vars

\* The store after n registrations were created and the first k approved
InitList ==
    \E n \in 0..MaxListed :
        \E k \in 0..n :
            /\ db = [i \in 1..n |->
                        StoredRegistration(i, IF i <= k THEN "approved" ELSE "pending")]
            /\ forms = {}
            /\ disk = {StoredFile("aadharFile", i).path : i \in 1..n}
            /\ removed = {}
            /\ nextId = n + 1
            /\ nextFile = n + 1
            /\ resp = Reply("none", BadId, 0, "")
        /\ payments = <<>>
        /\ inflight = EmptyBag

NextList ==
    \/ ListRegistrations

SpecList == InitList /\ [][NextList]_vars

\* Create, get, update and delete with the uploads the file filter rejects
NextIntake ==
    \/ PostRegistration
    \/ GetRegistration
    \/ PutRegistration
    \/ DeleteRegistration
    \/ RejectedUpload

SpecIntake == Init /\ [][NextIntake]_vars

\* The payment endpoints over an empty collection
NextPayment ==
    \/ savePayment
    \/ getAllPayments

SpecPayment == Init /\ [][NextPayment]_vars

\* The store with one registration and no request under way
InitRace ==
    /\ db = [i \in {1} |-> StoredRegistration(i, "pending")]
    /\ forms = {}
    /\ disk = {StoredFile("aadharFile", 1).path}
    /\ removed = {}
    /\ nextId = 2
    /\ nextFile = 2
    /\ resp = Reply("none", BadId, 0, "")
    /\ payments = <<>>
    /\ inflight = EmptyBag

\* Updates and deletes run handler segment by handler segment
NextRace ==
    \/ PutFind
    \/ PutUnlink
    \/ PutWrite
    \/ PutRespond
    \/ DeleteFind
    \/ DeleteUnlink
    \/ DeleteWrite

SpecRace == InitRace /\ [][NextRace]_vars

\* ================================================================ claims
\* The response reports a lost database connection
Outage(r) ==
    \/ r.detail = NetworkError.message
    \/ "general" \in DOMAIN r.errors /\ r.errors["general"] = NetworkError.message

\* C1: no stored record references a file that the handlers have unlinked.
C1_NoRecordReferencesRemovedFile ==
    \A id \in DOMAIN db : ReferencedPaths(db[id]) \cap removed = {}

\* C2: a create request (POST / or POST /submit) lacking a required field or
\* file is answered 400 with each lacking field named in the errors map,
\* persists no record, and leaves none of its uploaded files on disk.
C2_CreateLackingIsRejectedAndCleaned ==
    [][(resp'.op \in {"post", "submit"} /\ resp'.lacking # {}) =>
          /\ resp'.status = 400
          /\ resp'.lacking \subseteq DOMAIN resp'.errors
          /\ db' = db /\ forms' = forms
          /\ resp'.files \cap disk' = {}]_vars

\* C3: a PUT /:id that carries uploaded files and fails is answered 400 with
\* the errors map, and none of its uploaded files remains on disk.
C3_FailedUpdateIsCleaned ==
    (resp.op = "put" /\ resp.files # {} /\ resp.status # 200) =>
        /\ resp.status = 400
        /\ DOMAIN resp.errors # {}
        /\ resp.files \cap disk = {}

\* C4: after a successful DELETE /:id the record is gone (GET by that id
\* answers 404, and the id never comes back) and no file the record
\* referenced is on disk, whether or not the record had files on disk.
C4_DeleteRemovesRecordAndFiles ==
    /\ [](resp.op = "delete" /\ resp.status = 200 =>
            /\ resp.id \notin DOMAIN db
            /\ GetReply(resp.id, TRUE) = NotFound("get", resp.id)
            /\ resp.refs \cap disk = {})
    /\ [][\A id \in Ids : (id < nextId /\ id \notin DOMAIN db) =>
                              id \notin DOMAIN db']_vars

\* C4 witness: a delete succeeded on a record one of whose files was
\* already missing from disk while another was still there
C4_Witness ==
    /\ resp.op = "delete" /\ resp.status = 200
    /\ resp.unlinked # {}
    /\ resp.unlinked # resp.refs

\* C5: PUT /:id/status with one of the four statuses on an existing record
\* stores that status, and a GET by the id then returns it; with any other
\* status the answer is 400 and the store is unchanged.
C5_StatusUpdate ==
    [][\A id \in IdParams, status \in StatusValues :
          (resp'.op = "status" /\ resp'.id = id /\ resp'.arg[1] = status) =>
              IF status \in {"pending", "approved", "rejected", "under_review"}
              THEN (id \in DOMAIN db /\ ~Outage(resp')) =>
                      /\ resp'.status = 200
                      /\ db'[id].registrationStatus = status
                      /\ GetReply(id, TRUE)'.status = 200
                      /\ \A d \in GetReply(id, TRUE)'.data :
                             d.registrationStatus = status
              ELSE resp'.status = 400 /\ db' = db]_vars

\* C5 witness: a status request with a value outside the enum was refused
\* on a record that an earlier request had set to rejected
C5_Witness ==
    /\ resp.op = "status" /\ resp.status = 400
    /\ resp.arg[1] = "archived"
    /\ resp.id \in DOMAIN db
    /\ db[resp.id].registrationStatus = "rejected"

\* C6: PUT /:id/verify with one of the five verification types sets that one
\* flag and leaves the other flags, every other field of the record and every
\* other record as stored; an unknown type answers 400 and changes nothing.
C6_VerifyChangesOneFlag ==
    [][resp'.op = "verify" =>
          LET id == resp'.id
              type == resp'.arg[1]
              types == {"aadharVerified", "panVerified", "signatureVerified",
                        "emailVerified", "phoneVerified"}
          IN  /\ disk' = disk
              /\ DOMAIN db' = DOMAIN db
              /\ \A i \in DOMAIN db : i # id => db'[i] = db[i]
              /\ IF type \in types
                 THEN /\ (id \in DOMAIN db /\ ~Outage(resp')) => resp'.status = 200
                      /\ resp'.status # 200 => db' = db
                      /\ resp'.status = 200 =>
                           /\ db'[id].verificationStatus[type] = resp'.arg[2]
                           /\ \A t \in types \ {type} :
                                  db'[id].verificationStatus[t]
                                      = db[id].verificationStatus[t]
                           /\ \A k \in DOMAIN db[id] \ {"verificationStatus"} :
                                  db'[id][k] = db[id][k]
                 ELSE resp'.status = 400 /\ db' = db]_vars

\* C6 witness: emailVerified was set on a record whose aadharVerified flag,
\* set by an earlier request, is still true
C6_Witness ==
    /\ resp.op = "verify" /\ resp.status = 200
    /\ resp.arg = <<"emailVerified", TRUE>>
    /\ db[resp.id].verificationStatus["aadharVerified"]

FourFlags(verificationStatus) ==
    /\ verificationStatus["aadharVerified"]
    /\ verificationStatus["signatureVerified"]
    /\ verificationStatus["emailVerified"]
    /\ verificationStatus["phoneVerified"]

\* C7: the full-verification predicate a verify request reports is true
\* exactly when the aadhar, signature, email and phone flags are all true,
\* whatever panVerified is, and the stats answer groups the records by that
\* same conjunction.
C7_FullyVerifiedIsFourFlags ==
    /\ (resp.op = "verify" /\ resp.status = 200) =>
           \A d \in resp.data :
               d.isFullyVerified = FourFlags(db[resp.id].verificationStatus)
    /\ (resp.op = "stats" /\ resp.status = 200) =>
           \A d \in resp.data :
               d.verificationStats =
                   {[_id |-> b,
                     count |-> Cardinality({i \in DOMAIN db :
                                   FourFlags(db[i].verificationStatus) = b})] :
                       b \in {FourFlags(db[i].verificationStatus) : i \in DOMAIN db}}

\* C7 witness: a record is reported fully verified while panVerified is false
C7_Witness ==
    /\ resp.op = "verify" /\ resp.status = 200
    /\ \A d \in resp.data : d.isFullyVerified
    /\ ~db[resp.id].verificationStatus["panVerified"]

\* C8: GET /:id answers the same 404 body for a malformed id and for an id
\* that matches no record, never 500 for a malformed id, and changes nothing.
C8_GetNotFound ==
    [][resp'.op = "get" =>
          /\ UNCHANGED <<db, forms, disk, removed>>
          /\ resp'.id = BadId => resp' = NotFound("get", BadId)
          /\ (resp'.id \notin DOMAIN db /\ ~Outage(resp')) =>
                 /\ resp'.status = 404
                 /\ resp'.message = NotFound("get", BadId).message
                 /\ resp'.data = NotFound("get", BadId).data]_vars

\* C8 witness: a GET with a malformed id was answered 404
C8_Witness == resp.op = "get" /\ resp.id = BadId /\ resp.status = 404

\* C9: every id-scoped write (PUT /:id, PUT /:id/status, PUT /:id/verify,
\* DELETE /:id) answers 404 for an id that is malformed or matches no record.
C9_WritesAnswer404ForBadIds ==
    [][(/\ resp'.op \in {"put", "status", "verify", "delete"}
        /\ resp'.id = BadId \/ resp'.id \notin DOMAIN db
        /\ ~Outage(resp')) => resp'.status = 404]_vars


\* The decimal text of a number below 100
Decimal(n) ==
    LET digit == <<"1", "2", "3", "4", "5", "6", "7", "8", "9">>
        d(m) == IF m = 0 THEN "0" ELSE digit[m]
    IN  IF n < 10 THEN <<d(n)>> ELSE <<d(n \div 10), d(n % 10)>>

\* C10: with N records matching the filter, page p >= 1 and limit l >= 1
\* (1 and 10 when absent), the list returns min(l, max(0, N - (p-1)*l))
\* records, total = N and pages = ceil(N / l).
C10_Pagination ==
    \A p \in 1..3, l \in 1..10 :
        (/\ resp.op = "list" /\ resp.status = 200
         /\ resp.arg[1] \in {Decimal(p)} \cup (IF p = 1 THEN {Undefined} ELSE {})
         /\ resp.arg[2] \in {Decimal(l)} \cup (IF l = 10 THEN {Undefined} ELSE {})) =>
            LET N == Cardinality({i \in DOMAIN db :
                         resp.arg[3] = Absent \/ db[i].registrationStatus = resp.arg[3]})
                rest == IF N - (p - 1) * l > 0 THEN N - (p - 1) * l ELSE 0
            IN  \A d \in resp.data :
                    /\ Len(d.data) = IF l < rest THEN l ELSE rest
                    /\ d.pagination.total = N
                    /\ d.pagination.pages * l >= N
                    /\ (d.pagination.pages - 1) * l < N
                    /\ d.pagination.pages >= 0

\* C10 witness: limit=2 and page=2 over 5 records gave 2 records and 3 pages
C10_Witness ==
    /\ resp.op = "list" /\ resp.status = 200
    /\ resp.arg = <<<<"2">>, <<"2">>, Absent>>
    /\ Cardinality(DOMAIN db) = 5
    /\ \A d \in resp.data : Len(d.data) = 2 /\ d.pagination.pages = 3

\* C11: an upload whose extension or content type is outside the allow-list
\* of its field writes nothing to the database, and is answered 400 with the
\* filter's message under the "file" key of the errors map
C11_RejectedUploadAnswered400 ==
    [][resp'.rejected # {} =>
          /\ db' = db /\ forms' = forms
          /\ resp'.status = 400
          /\ "file" \in DOMAIN resp'.errors
          /\ Includes(resp'.errors["file"], "Invalid file type")]_vars

\* The payment request lacks userName, courseName, amount or paymentStatus
PaymentLacks(asked) ==
    \/ asked[1] \in {Absent, ""} \/ asked[2] \in {Absent, ""}
    \/ asked[4] \in {Absent, ""}
    \/ asked[3] \in {NoAmount, Number(0), Text(<<>>)}

\* The amount is a text in which, the rupee sign, commas and blanks apart,
\* no digit comes first
AmountUnreadable(asked) ==
    /\ asked[3].type = "string"
    /\ LET rest == SelectSeq(asked[3].chars, LAMBDA c : c \notin {"₹", ",", " "})
       IN  rest = <<>> \/ ~IsDigit(rest[1])

\* The collection after the step is the one before, or that with one more record
PaymentsKept == SubSeq(payments', 1, Len(payments)) = payments

WriteLands(c) ==
    LET d == [c EXCEPT !.pc = "settled",
                       !.outcome = [kind |-> "updated", error |-> Null]]
    IN  /\ c \in Suspended("put", "updating")
        /\ CopiesIn(d, inflight') > CopiesIn(d, inflight)

\* C13: updates of one record are not serialised.  Whatever the document an
\* update read, and whatever was written since, once its write lands the
\* record carries the files it uploaded: the record is that of the write
\* that landed last.  (The interleaving the claim describes is C13_Witness.)
C13_LastWriteWins ==
    [][\A c \in BagToSet(inflight) :
          WriteLands(c) =>
              /\ c.id \in DOMAIN db'
              /\ \A f \in DOMAIN c.files :
                     /\ db'[c.id][f] # Null
                     /\ db'[c.id][f].path = c.files[f].path]_vars

\* Two updates of one record are under way: the write of one has landed and
\* attached its upload; the other, its own write still to come, has unlinked
\* that upload, so the stored record references a file that is not on disk
C13_Witness ==
    \E a \in Suspended("put", "settled"), b \in Suspended("put", "updating") :
        /\ a.id = b.id /\ a.id \in DOMAIN db
        /\ a.outcome.kind = "updated"
        /\ "aadharFile" \in DOMAIN a.files /\ "aadharFile" \in DOMAIN b.files
        /\ a.files["aadharFile"].path \in b.unlinked
        /\ db[a.id]["aadharFile"] # Null
        /\ db[a.id]["aadharFile"].path = a.files["aadharFile"].path
        /\ ~existsSync(disk, a.files["aadharFile"].path)

\* The paths the stored registrations and form submissions reference
StoredPaths ==
    UNION {ReferencedPaths(db[i]) : i \in DOMAIN db}
        \cup {u[f] : u \in forms, f \in {"aadharFile", "signatureFile"}}

\* C14: whenever no request is in flight, every uploaded file on disk is
\* referenced by a stored record: no outcome of create, update or delete
\* leaves an unreferenced upload behind
C14_NoUnreferencedUpload ==
    inflight = EmptyBag => disk \subseteq StoredPaths

====
